---- MODULE Spec2Model ----
(***************************************************************************)
(* State-machine model of newparp/model/user_list.py:                      *)
(*   ConnectionTokenStore  - single-use connection tokens kept in Redis    *)
(*   UserListStore         - per-chat online map, liveness keys, typing    *)
(* and of charat2/helpers/chat.py with the quit view of                    *)
(* charat2/views/chat_api.py:                                              *)
(*   mark_alive, disconnect - the online set and chats_alive of a chat     *)
(* Every Redis EVAL script and every MULTI/EXEC pipeline is one atomic     *)
(* step of the store, so each is one action.  Redis keys are modelled as   *)
(* partial functions: a key exists iff it is in the DOMAIN.                *)
(***************************************************************************)
EXTENDS Integers, Sequences, FiniteSets, TLC

VARIABLES
    fwd,      \* connection:token:<name>        -> hash {user_id, chat_id, session_id}, ttl
    rev,      \* connection:user:<user>:<chat>  -> token string, ttl
    issued,   \* how many tokens uuid4() has produced
    tok,      \* history: what each issued token was created for, and what became of it
    okcalls,  \* history: per string, how many use_connection_token calls returned a tuple
    online,   \* chat:<chat_id>:online          hash socket_id -> user_id
    live,     \* chat:<chat_id>:online:<socket> -> session id, ttl
    typing,   \* chat:<chat_id>:typing          set of user numbers
    usermeta, \* queue:usermeta                 hash "chatuser:<user_id>" -> json
    race,     \* concurrent socket_join callers: who has returned what
    signals,  \* history: per user, the last changed=true result and whether
              \* two equal ones ever followed each other
    chat,     \* charat2: the chat's online set, chats_alive, the requests in
              \* flight and the messages published
    ret       \* the last call: operation, arguments, result (and, for the
              \* presence store, the store as it was before the call)

vars == <<fwd, rev, issued, tok, okcalls, online, live, typing, usermeta, race,
         signals, chat, ret>>
tokenVars == <<fwd, rev, issued, tok, okcalls>>
presenceVars == <<online, live, typing, usermeta>>

----------------------------------------------------------------------------
(* Bounds of the model *)

MaxUser == 2         \* user ids 1..MaxUser
MaxToken == 2        \* tokens uuid4() hands out in one run
MaxUserNumber == 1   \* room-scoped user numbers 1..MaxUserNumber
TokenTick == 5       \* time units that pass in one step of the token store's clock
PresenceTick == 15   \* time units that pass in one step of the presence store's clock
MaxRacers == 3       \* concurrent socket_join callers of one user
MaxRequests == 4     \* charat2 requests served in one run

Users == 1..MaxUser
Chats == {9}                          \* chat ids the token store is asked about
UserNumbers == 1..MaxUserNumber
SessionIds == {"s1", "s2"}
Tokens == {"t" \o ToString(i) : i \in 1..MaxToken}   \* the strings uuid4() returns
Malformed == {"zz"}                   \* a string uuid.UUID() rejects
Handles == {"h1", "h2"}               \* socket ids
RaceHandles == {"r" \o ToString(i) : i \in 1..MaxRacers}   \* their socket ids
ChatId == 9                           \* the chat the UserListStore instance is bound to

(* Program constants *)
expire_time == 10
socket_ttl == 30
ping_ttl == 30

----------------------------------------------------------------------------
(* Redis and Python primitives *)

\* str(n): redis-py sends an int argument as its decimal string.
str(n) == ToString(n)

\* int(s) of a decimal string read back from Redis.
Ints == 0..(MaxUser + MaxUserNumber + 9)
IsNumeric(s) == \E n \in Ints : ToString(n) = s
int(s) == CHOOSE n \in Ints : ToString(n) = s

\* SET / HSET / HMSET of one key of a key family.
Put(f, k, v) == [x \in DOMAIN f \cup {k} |-> IF x = k THEN v ELSE f[x]]

\* DEL / HDEL of one key; deleting a missing key changes nothing.
Del(f, k) == [x \in DOMAIN f \ {k} |-> f[x]]

\* Passive expiry: d time units pass; a key whose TTL runs out is removed.
Expire(f, d) ==
    [x \in {k \in DOMAIN f : f[k].ttl > d} |-> [f[x] EXCEPT !.ttl = f[x].ttl - d]]

\* HVALS: the values of a hash.
hvals(h) == {h[k] : k \in DOMAIN h}

\* SADD / SREM of one member: the new set and the reply (members added / removed).
sadd(S, m) == [set |-> S \cup {m}, reply |-> IF m \in S THEN 0 ELSE 1]
srem_as_sadd(S, m) == sadd(S, m)
srem(S, m) == [set |-> S \ {m}, reply |-> IF m \in S THEN 1 ELSE 0]

Empty == [x \in {} |-> 0]

\* The outcome of a call: a returned value or a raised exception.
Return(v) == [value |-> v]
Raise(e) == [raised |-> e]
Returned(r) == "value" \in DOMAIN r

----------------------------------------------------------------------------
(* ConnectionTokenStore *)

\* uuid.UUID(token) succeeds: tokens and session ids are UUID text.
IsUUID(s) == s \in Tokens \cup SessionIds

\* create_connection_token_script; ARGV = <<user_id, chat_id, session_id, token>>.
create_connection_token_script(F, R, ARGV) ==
    LET forward == ARGV[3]
        reverse == <<ARGV[1], ARGV[2]>>
        F1 == IF reverse \in DOMAIN R THEN Del(F, R[reverse].value) ELSE F
        F2 == Put(F1, forward, [user_id |-> ARGV[1], chat_id |-> ARGV[2],
                                session_id |-> ARGV[3], ttl |-> expire_time])
        R2 == Put(R, reverse, [value |-> ARGV[4], ttl |-> expire_time])
    IN  [fwd |-> F2, rev |-> R2]

\* use_connection_token_script; ARGV = <<token>>.  The third "local chat_id"
\* rebinds chat_id to the session_id field; session_id itself is never bound,
\* so the return statement reads an undeclared global: with Redis' globals
\* protection the script aborts there (after the DEL); without it the table
\* ends at the nil and the reply has two elements.
use_connection_token_script(F, R, ARGV, protected) ==
    IF ARGV[1] \notin DOMAIN F
    THEN [fwd |-> F, rev |-> R, reply |-> <<>>, error |-> FALSE]
    ELSE LET user_id == F[ARGV[1]].user_id
             chat_id == F[ARGV[1]].session_id
         IN  [fwd |-> Del(F, ARGV[1]),
              rev |-> Del(R, <<user_id, chat_id>>),
              reply |-> IF protected THEN <<>> ELSE <<user_id, chat_id>>,
              error |-> protected]

\* The Python half of use_connection_token: what the caller gets.
use_connection_token_result(token, out) ==
    IF ~IsUUID(token) THEN Raise("InvalidToken")
    ELSE IF out.error THEN Raise("ResponseError")
    ELSE IF out.reply = <<>> THEN Raise("InvalidToken")
    ELSE IF ~IsNumeric(out.reply[1]) \/ ~IsNumeric(out.reply[2]) THEN Raise("ValueError")
    ELSE IF Len(out.reply) < 3 THEN Raise("IndexError")
    ELSE Return(<<int(out.reply[1]), int(out.reply[2]), out.reply[3]>>)

\* invalidate_connection_token_script; ARGV = <<user_id, chat_id>>.
invalidate_connection_token_script(F, R, ARGV) ==
    LET reverse == <<ARGV[1], ARGV[2]>>
    IN  IF reverse \notin DOMAIN R
        THEN [fwd |-> F, rev |-> R]
        ELSE [fwd |-> Del(F, R[reverse].value), rev |-> Del(R, reverse)]

\* History of a token: "live" from its creation until it expires, is
\* submitted for redemption, is invalidated or is superseded by a later
\* create for the same (user, chat); what it was created for is kept while
\* it is live.
Kill(T, S, why) ==
    [t \in DOMAIN T |-> IF t \in S /\ T[t].state = "live"
                        THEN [state |-> why] ELSE T[t]]

LiveFor(T, u, c) ==
    {t \in DOMAIN T : T[t].state = "live" /\ T[t].user_id = u /\ T[t].chat_id = c}

\* The token keys as they are before a call.
TokenStore == [fwd |-> fwd, rev |-> rev]

create_connection_token(user_id, chat_id, session_id) ==
    \E token \in {"t" \o ToString(issued + 1)} \cap Tokens :
        LET out == create_connection_token_script(
                       fwd, rev, <<str(user_id), str(chat_id), session_id, token>>)
        IN  /\ fwd' = out.fwd
            /\ rev' = out.rev
            /\ issued' = issued + 1
            /\ UNCHANGED okcalls
            /\ tok' = Put(Kill(tok, LiveFor(tok, user_id, chat_id), "superseded"), token,
                          [user_id |-> user_id, chat_id |-> chat_id,
                           session_id |-> session_id, state |-> "live",
                           left |-> expire_time])
            /\ ret' = [op |-> "create", user_id |-> user_id, chat_id |-> chat_id,
                       session_id |-> session_id, result |-> token,
                       pre |-> TokenStore]
            /\ UNCHANGED <<presenceVars, race, signals, chat>>

use_connection_token(token) ==
    \E protected \in BOOLEAN :
        LET touched == IsUUID(token)
            out == IF touched
                   THEN use_connection_token_script(fwd, rev, <<token>>, protected)
                   ELSE [fwd |-> fwd, rev |-> rev, reply |-> <<>>, error |-> FALSE]
            result == use_connection_token_result(token, out)
            was == IF token \in DOMAIN tok THEN tok[token] ELSE [state |-> "unknown"]
        IN  /\ fwd' = out.fwd
            /\ rev' = out.rev
            /\ tok' = Kill(tok, {token}, "redeemed")
            /\ okcalls' = [okcalls EXCEPT ![token] = @ + (IF Returned(result) THEN 1 ELSE 0)]
            /\ ret' = [op |-> "use", token |-> token, result |-> result, was |-> was,
                       pre |-> TokenStore]
            /\ UNCHANGED <<issued, presenceVars, race, signals, chat>>

invalidate_connection_token(user_id, chat_id) ==
    LET out == invalidate_connection_token_script(fwd, rev, <<str(user_id), str(chat_id)>>)
    IN  /\ fwd' = out.fwd
        /\ rev' = out.rev
        /\ tok' = Kill(tok, LiveFor(tok, user_id, chat_id), "invalidated")
        /\ ret' = [op |-> "invalidate", user_id |-> user_id, chat_id |-> chat_id,
                   pre |-> TokenStore]
        /\ UNCHANGED <<issued, okcalls, presenceVars, race, signals, chat>>

\* invalidate_all_tokens_for_user: the loop's first statement calls scan on
\* the name redis, which the module never binds (it imports json, time and
\* uuid only; the store handle is self.redis): NameError, before any command
\* reaches the store.
invalidate_all_tokens_for_user(user_id) ==
    /\ ret' = [op |-> "invalidate_all", user_id |-> user_id,
               result |-> Raise("NameError"), pre |-> TokenStore]
    /\ UNCHANGED <<tokenVars, presenceVars, race, signals, chat>>

\* Redis removes token keys whose TTL has run out.
TokenExpiry ==
    /\ DOMAIN fwd \cup DOMAIN rev # {}
    /\ fwd' = Expire(fwd, TokenTick)
    /\ rev' = Expire(rev, TokenTick)
    /\ tok' = [t \in DOMAIN tok |->
                 IF tok[t].state = "live" /\ tok[t].left <= TokenTick
                 THEN [state |-> "expired"]
                 ELSE IF tok[t].state = "live"
                 THEN [tok[t] EXCEPT !.left = @ - TokenTick]
                 ELSE tok[t]]
    /\ ret' = [op |-> "expiry", pre |-> TokenStore]
    /\ UNCHANGED <<issued, okcalls, presenceVars, race, signals, chat>>

----------------------------------------------------------------------------
(* UserListStore, one instance (one chat_id).  Replies are text: hash values *)
(* and set members come back as the strings that were stored.                *)

Presence == [online |-> online, live |-> live, typing |-> typing, usermeta |-> usermeta]

\* socket_join's pipeline (MULTI/EXEC): HVALS, HSET queue:usermeta, HSET, SETEX.
\* The json value's timestamp is not modelled, its chat_id is.
socket_join_pipeline_late_hvals(P, socket_id, session_id, user_id) ==
    [result0  |-> hvals(Put(P.online, socket_id, str(user_id))),
     usermeta |-> Put(P.usermeta, "chatuser:" \o str(user_id), [chat_id |-> ChatId]),
     online   |-> Put(P.online, socket_id, str(user_id)),
     live     |-> Put(P.live, socket_id, [value |-> session_id, ttl |-> socket_ttl]),
     typing   |-> P.typing]

socket_join_pipeline(P, socket_id, session_id, user_id) ==
    [result0  |-> hvals(P.online),
     usermeta |-> Put(P.usermeta, "chatuser:" \o str(user_id), [chat_id |-> ChatId]),
     online   |-> Put(P.online, socket_id, str(user_id)),
     live     |-> Put(P.live, socket_id, [value |-> session_id, ttl |-> socket_ttl]),
     typing   |-> P.typing]

socket_join_result_inverted(user_id, result0) == str(user_id) \in result0

\* return str(user_id) not in result[0]
socket_join_result(user_id, result0) == str(user_id) \notin result0

socket_ping_script_no_liveness_check(P, socket_id) ==
    IF socket_id \notin DOMAIN P.online THEN [live |-> P.live, reply |-> FALSE]
    ELSE [live |-> Put(P.live, socket_id,
                       [value |-> IF socket_id \in DOMAIN P.live
                                  THEN P.live[socket_id].value ELSE "",
                        ttl |-> ping_ttl]),
          reply |-> TRUE]

\* socket_ping_script; ARGV = <<chat_id, socket_id>>.
socket_ping_script(P, socket_id) ==
    IF socket_id \notin DOMAIN P.online THEN [live |-> P.live, reply |-> FALSE]
    ELSE IF socket_id \notin DOMAIN P.live THEN [live |-> P.live, reply |-> FALSE]
    ELSE [live |-> [P.live EXCEPT ![socket_id].ttl = ping_ttl], reply |-> TRUE]

socket_disconnect_pipeline_early_hvals(P, socket_id, user_number) ==
    [had          |-> socket_id \in DOMAIN P.online,
     user_id      |-> IF socket_id \in DOMAIN P.online THEN P.online[socket_id] ELSE "",
     online       |-> Del(P.online, socket_id),
     live         |-> Del(P.live, socket_id),
     typing       |-> srem(P.typing, str(user_number)).set,
     new_user_ids |-> hvals(P.online)]

\* socket_disconnect's pipeline (MULTI/EXEC): HGET, HDEL, DEL, SREM, HVALS.
socket_disconnect_pipeline(P, socket_id, user_number) ==
    LET O2 == Del(P.online, socket_id)
    IN  [had          |-> socket_id \in DOMAIN P.online,
         user_id      |-> IF socket_id \in DOMAIN P.online THEN P.online[socket_id] ELSE "",
         online       |-> O2,
         live         |-> Del(P.live, socket_id),
         typing       |-> srem(P.typing, str(user_number)).set,
         new_user_ids |-> hvals(O2)]

socket_disconnect_result_any_handle(out) == out.had /\ out.user_id # ""

\* if not user_id: return False; return user_id not in new_user_ids
socket_disconnect_result(out) ==
    IF ~out.had \/ out.user_id = "" THEN FALSE
    ELSE out.user_id \notin out.new_user_ids

user_disconnect_script_first_only(P, user_id, user_number) ==
    IF DOMAIN P.online = {}
    THEN [online |-> P.online, live |-> P.live, typing |-> P.typing, reply |-> FALSE]
    ELSE LET mine == {h \in DOMAIN P.online : P.online[h] = user_id}
             gone == IF mine = {} THEN {} ELSE {CHOOSE h \in mine : TRUE}
         IN  [online |-> [h \in DOMAIN P.online \ gone |-> P.online[h]],
              live   |-> [h \in DOMAIN P.live \ gone |-> P.live[h]],
              typing |-> srem(P.typing, user_number).set,
              reply  |-> mine # {}]

\* user_disconnect_script; ARGV = <<chat_id, user_id, user_number>>.
user_disconnect_script(P, user_id, user_number) ==
    IF DOMAIN P.online = {}
    THEN [online |-> P.online, live |-> P.live, typing |-> P.typing, reply |-> FALSE]
    ELSE LET mine == {h \in DOMAIN P.online : P.online[h] = user_id}
         IN  [online |-> [h \in DOMAIN P.online \ mine |-> P.online[h]],
              live   |-> [h \in DOMAIN P.live \ mine |-> P.live[h]],
              typing |-> srem(P.typing, user_number).set,
              reply  |-> mine # {}]

inconsistent_entries_script_all(P) ==
    {<<h, int(P.online[h])>> : h \in DOMAIN P.online}

\* inconsistent_entries_script and the list comprehension around it.
inconsistent_entries_script(P) ==
    {<<h, int(P.online[h])>> : h \in {k \in DOMAIN P.online : k \notin DOMAIN P.live}}

socket_join_call(socket_id, session_id, user_id) ==
    LET out == socket_join_pipeline(Presence, socket_id, session_id, user_id)
    IN  /\ online' = out.online
        /\ live' = out.live
        /\ usermeta' = out.usermeta
        /\ typing' = out.typing
        /\ ret' = [op |-> "socket_join", socket_id |-> socket_id,
                   session_id |-> session_id, user_id |-> user_id,
                   result |-> Return(socket_join_result(user_id, out.result0)),
                   pre |-> Presence]
        /\ UNCHANGED <<tokenVars, chat>>

socket_join(socket_id, session_id, user_id) ==
    /\ socket_join_call(socket_id, session_id, user_id)
    /\ UNCHANGED <<race, signals>>

socket_ping(socket_id) ==
    LET out == socket_ping_script(Presence, socket_id)
    IN  /\ live' = out.live
        /\ ret' = [op |-> "socket_ping", socket_id |-> socket_id,
                   result |-> IF out.reply THEN Return("None")
                              ELSE Raise("PingTimeoutException"),
                   pre |-> Presence]
        /\ UNCHANGED <<online, typing, usermeta, tokenVars, race, signals, chat>>

socket_disconnect_call_keeps_liveness(socket_id, user_number) ==
    LET out == socket_disconnect_pipeline(Presence, socket_id, user_number)
    IN  /\ online' = out.online
        /\ typing' = out.typing
        /\ ret' = [op |-> "socket_disconnect", socket_id |-> socket_id,
                   user_number |-> user_number,
                   result |-> Return(socket_disconnect_result(out)),
                   pre |-> Presence]
        /\ UNCHANGED <<live, usermeta, tokenVars, race, chat>>

socket_disconnect_call(socket_id, user_number) ==
    LET out == socket_disconnect_pipeline(Presence, socket_id, user_number)
    IN  /\ online' = out.online
        /\ live' = out.live
        /\ typing' = out.typing
        /\ ret' = [op |-> "socket_disconnect", socket_id |-> socket_id,
                   user_number |-> user_number,
                   result |-> Return(socket_disconnect_result(out)),
                   pre |-> Presence]
        /\ UNCHANGED <<usermeta, tokenVars, race, chat>>

socket_disconnect(socket_id, user_number) ==
    /\ socket_disconnect_call(socket_id, user_number)
    /\ UNCHANGED signals

user_disconnect_call(user_id, user_number) ==
    LET out == user_disconnect_script(Presence, str(user_id), str(user_number))
    IN  /\ online' = out.online
        /\ live' = out.live
        /\ typing' = out.typing
        /\ ret' = [op |-> "user_disconnect", user_id |-> user_id,
                   user_number |-> user_number,
                   result |-> Return(out.reply),
                   pre |-> Presence]
        /\ UNCHANGED <<usermeta, tokenVars, race, chat>>

user_disconnect(user_id, user_number) ==
    /\ user_disconnect_call(user_id, user_number)
    /\ UNCHANGED signals

user_ids_online_fresh_only ==
    /\ ret' = [op |-> "user_ids_online",
               result |-> Return({int(online[h]) : h \in DOMAIN online \cap DOMAIN live}),
               pre |-> Presence]
    /\ UNCHANGED <<presenceVars, tokenVars, race, signals, chat>>

user_ids_online ==
    /\ ret' = [op |-> "user_ids_online",
               result |-> Return({int(v) : v \in hvals(online)}),
               pre |-> Presence]
    /\ UNCHANGED <<presenceVars, tokenVars, race, signals, chat>>

\* bool(n) of an integer reply.
bool(n) == n # 0

user_start_typing(user_number) ==
    LET out == sadd(typing, str(user_number))
    IN  /\ typing' = out.set
        /\ ret' = [op |-> "user_start_typing", user_number |-> user_number,
                   result |-> Return(bool(out.reply)),
                   pre |-> Presence]
        /\ UNCHANGED <<online, live, usermeta, tokenVars, race, signals, chat>>

user_stop_typing(user_number) ==
    LET out == srem(typing, str(user_number))
    IN  /\ typing' = out.set
        /\ ret' = [op |-> "user_stop_typing", user_number |-> user_number,
                   result |-> Return(bool(out.reply)),
                   pre |-> Presence]
        /\ UNCHANGED <<online, live, usermeta, tokenVars, race, signals, chat>>

user_numbers_typing ==
    /\ ret' = [op |-> "user_numbers_typing",
               result |-> Return({int(m) : m \in typing}),
               pre |-> Presence]
    /\ UNCHANGED <<presenceVars, tokenVars, race, signals, chat>>

inconsistent_entries ==
    /\ ret' = [op |-> "inconsistent_entries",
               result |-> Return(inconsistent_entries_script(Presence)),
               pre |-> Presence]
    /\ UNCHANGED <<presenceVars, tokenVars, race, signals, chat>>

\* Redis removes liveness keys whose TTL has run out; the online hash has no TTL.
SocketExpiry ==
    /\ DOMAIN live # {}
    /\ live' = Expire(live, PresenceTick)
    /\ ret' = [op |-> "expiry", pre |-> Presence]
    /\ UNCHANGED <<online, typing, usermeta, tokenVars, race, signals, chat>>

----------------------------------------------------------------------------
Init ==
    /\ fwd = Empty
    /\ rev = Empty
    /\ issued = 0
    /\ tok = Empty
    /\ okcalls = [t \in Tokens \cup SessionIds \cup Malformed |-> 0]
    /\ online = Empty
    /\ live = Empty
    /\ typing = {}
    /\ usermeta = Empty
    /\ race = [phase |-> "idle"]
    /\ signals = [u \in Users |-> [last |-> "left", twice |-> FALSE]]
    /\ chat = [online |-> {}, alive |-> {}, reqs |-> Empty, started |-> 0,
               sent |-> [u \in Users |-> [join |-> 0, disconnect |-> 0]]]
    /\ ret = [op |-> "none"]

NextToken ==
    \/ \E u \in Users, c \in Chats, s \in SessionIds : create_connection_token(u, c, s)
    \/ \E t \in Tokens \cup SessionIds \cup Malformed : use_connection_token(t)
    \/ \E u \in Users, c \in Chats : invalidate_connection_token(u, c)
    \/ \E u \in Users : invalidate_all_tokens_for_user(u)
    \/ TokenExpiry

SpecToken == Init /\ [][NextToken]_vars

Next ==
    \/ \E h \in Handles, s \in SessionIds, u \in Users : socket_join(h, s, u)
    \/ \E h \in Handles : socket_ping(h)
    \/ \E h \in Handles, n \in UserNumbers : socket_disconnect(h, n)
    \/ \E u \in Users, n \in UserNumbers : user_disconnect(u, n)
    \/ user_ids_online
    \/ \E n \in UserNumbers : user_start_typing(n)
    \/ \E n \in UserNumbers : user_stop_typing(n)
    \/ user_numbers_typing
    \/ inconsistent_entries
    \/ SocketExpiry

Spec == Init /\ [][Next]_vars

----------------------------------------------------------------------------
(* Concurrent socket_join calls of one user.  Each call is one MULTI/EXEC,  *)
(* so the calls take effect one after the other, in any order.  The race    *)
(* starts from any state of the store in which the user has no handle.      *)

StartRace(user_id) ==
    /\ race.phase = "idle"
    /\ \A h \in DOMAIN online : int(online[h]) # user_id
    /\ race' = [phase |-> "racing", user_id |-> user_id,
                pending |-> RaceHandles, results |-> Empty]
    /\ UNCHANGED <<presenceVars, tokenVars, signals, chat, ret>>

RaceJoin(socket_id, session_id) ==
    /\ race.phase = "racing"
    /\ socket_id \in race.pending
    /\ socket_join_call(socket_id, session_id, race.user_id)
    /\ race' = [race EXCEPT !.pending = @ \ {socket_id},
                            !.results = Put(@, socket_id, ret'.result.value)]
    /\ UNCHANGED signals

NextRace ==
    \/ /\ race.phase = "idle"
       /\ \E h \in Handles, s \in SessionIds, u \in Users : socket_join(h, s, u)
    \/ /\ race.phase = "idle"
       /\ \E u \in Users, n \in UserNumbers : user_disconnect(u, n)
    \/ /\ race.phase = "idle"
       /\ SocketExpiry
    \/ \E u \in Users : StartRace(u)
    \/ \E h \in RaceHandles, s \in SessionIds : RaceJoin(h, s)

SpecJoinRace == Init /\ [][NextRace]_vars

\* The session a user's connections belong to.
SessionOf(u) == IF u % 2 = 1 THEN "s1" ELSE "s2"

----------------------------------------------------------------------------
(* socket_join as its callers run it among other clients of the store: the  *)
(* caller queues the four commands on a pipeline (no traffic), and          *)
(* pipe.execute() sends them.  self.redis.pipeline() is a transaction       *)
(* pipeline, so execute() wraps the queue in MULTI/EXEC and the store       *)
(* applies all of it in one step.  The scripts of socket_ping,              *)
(* user_disconnect and inconsistent_entries, the pipeline of                *)
(* socket_disconnect and key expiry are the steps of the other clients.     *)

\* The pipelines that are queued or partly applied, by handle.
Jobs == IF race.phase = "pipelines" THEN race.jobs ELSE Empty

pipeline_exec_command_by_command(queued) == 1

\* How many of the queued commands the store applies in one indivisible step.
pipeline_exec(queued) == queued

\* The store P after commands sent+1 .. sent+n of socket_join's pipeline, and
\* the HVALS reply if that command was among them.
socket_join_commands(P, sent, n, job, socket_id) ==
    LET out == socket_join_pipeline(P, socket_id, job.session_id, job.user_id)
        now == (sent + 1) .. (sent + n)
    IN  [result0  |-> IF 1 \in now THEN out.result0 ELSE job.result0,
         usermeta |-> IF 2 \in now THEN out.usermeta ELSE P.usermeta,
         online   |-> IF 3 \in now THEN out.online ELSE P.online,
         live     |-> IF 4 \in now THEN out.live ELSE P.live]

\* pipe = self.redis.pipeline(); pipe.hvals(..); pipe.hset(..); pipe.hset(..);
\* pipe.setex(..)
socket_join_queue(socket_id, session_id, user_id) ==
    /\ race.phase \in {"idle", "pipelines"}
    /\ socket_id \notin DOMAIN Jobs
    /\ race' = [phase |-> "pipelines",
                jobs |-> Put(Jobs, socket_id,
                             [session_id |-> session_id, user_id |-> user_id,
                              sent |-> 0, result0 |-> {}])]
    /\ UNCHANGED <<presenceVars, tokenVars, signals, chat, ret>>

\* result = pipe.execute(); return str(user_id) not in result[0]
socket_join_execute(socket_id) ==
    /\ socket_id \in DOMAIN Jobs
    /\ LET job == Jobs[socket_id]
           n == pipeline_exec(4 - job.sent)
           out == socket_join_commands(Presence, job.sent, n, job, socket_id)
       IN  /\ online' = out.online
           /\ live' = out.live
           /\ usermeta' = out.usermeta
           /\ IF job.sent + n = 4
              THEN /\ race' = [race EXCEPT !.jobs = Del(@, socket_id)]
                   /\ ret' = [op |-> "socket_join", socket_id |-> socket_id,
                              session_id |-> job.session_id, user_id |-> job.user_id,
                              result |-> Return(socket_join_result(job.user_id, out.result0)),
                              pre |-> Presence]
              ELSE /\ race' = [race EXCEPT !.jobs[socket_id].sent = @ + n,
                                           !.jobs[socket_id].result0 = out.result0]
                   /\ UNCHANGED ret
    /\ UNCHANGED <<typing, tokenVars, signals, chat>>

NextPipelines ==
    \/ \E h \in Handles, u \in Users : socket_join_queue(h, SessionOf(u), u)
    \/ \E h \in Handles : socket_join_execute(h)
    \/ \E h \in Handles : socket_ping(h)
    \/ \E h \in Handles, n \in UserNumbers : socket_disconnect(h, n)
    \/ \E u \in Users, n \in UserNumbers : user_disconnect(u, n)
    \/ inconsistent_entries
    \/ SocketExpiry

SpecPipelines == Init /\ [][NextPipelines]_vars

----------------------------------------------------------------------------
(* The changed=true results of one chat as its callers receive them: a true *)
(* socket_join is the user's "joined", a true socket_disconnect or          *)
(* user_disconnect the "left" of the handle's owner.  A handle names one    *)
(* connection, and a connection belongs to one user and one session: every *)
(* user has its own handles, which it may join, lose to expiry, disconnect  *)
(* and join again.  User 1 is connected twice, the other users once.        *)

Connections(u) == IF u = 1 THEN {"c1a", "c1b"} ELSE {"c" \o str(u)}

\* The history after user u got the result x.
Signal(S, u, x) == [S EXCEPT ![u] = [last |-> x, twice |-> @.twice \/ @.last = x]]

socket_join_signal(socket_id, session_id, user_id) ==
    /\ socket_join_call(socket_id, session_id, user_id)
    /\ signals' = IF ret'.result.value
                  THEN Signal(signals, user_id, "joined") ELSE signals
    /\ UNCHANGED race

socket_disconnect_signal(socket_id, user_number) ==
    /\ socket_disconnect_call(socket_id, user_number)
    /\ signals' = IF ret'.result.value
                  THEN Signal(signals, int(online[socket_id]), "left") ELSE signals

user_disconnect_signal(user_id, user_number) ==
    /\ user_disconnect_call(user_id, user_number)
    /\ signals' = IF ret'.result.value
                  THEN Signal(signals, user_id, "left") ELSE signals

NextSignals ==
    \/ \E u \in Users :
           \E h \in Connections(u) : socket_join_signal(h, SessionOf(u), u)
    \/ \E u \in Users : \E h \in Connections(u) : socket_ping(h)
    \/ \E u \in Users, n \in UserNumbers :
           \E h \in Connections(u) : socket_disconnect_signal(h, n)
    \/ \E u \in Users, n \in UserNumbers : user_disconnect_signal(u, n)
    \/ SocketExpiry

SpecSignals == Init /\ [][NextSignals]_vars

----------------------------------------------------------------------------
(* charat2/helpers/chat.py and the quit view of charat2/views/chat_api.py.  *)
(* Here the chat's online list is a Redis set of user ids, chats_alive a    *)
(* sorted set of "<chat_id>/<user_id>" members (its scores, time()+15, are  *)
(* not modelled), and every Redis command is its own round trip: a request  *)
(* is a sequence of steps, and the steps of the requests in flight          *)
(* interleave.  chat.sent counts the messages send_message has published.   *)

alive_member(user_id) == str(ChatId) \o "/" \o str(user_id)

\* The request a new arrival gets, and the chat with request r at its next
\* step / finished.
NewRequest(kind, user_id, pc) == [kind |-> kind, user_id |-> user_id, pc |-> pc]

Goto(C, r, pc) == [C EXCEPT !.reqs[r].pc = pc]

Finish(C, r) == [C EXCEPT !.reqs = Del(@, r)]

\* online = g.redis.sismember("chat:%s:online" % g.chat_id, g.user_id)
\* if not online: ...
mark_alive_sismember(C, r) ==
    IF str(C.reqs[r].user_id) \in C.online THEN Goto(C, r, "zadd") ELSE Goto(C, r, "sadd")

\* g.redis.sadd("chat:%s:online" % g.chat.id, g.user.id)
mark_alive_sadd(C, r) ==
    Goto([C EXCEPT !.online = sadd(@, str(C.reqs[r].user_id)).set], r, "send_message")

\* send_message(db, redis, message): redis.publish("channel:%s", ...)
send_message(C, user_id, type) ==
    [C EXCEPT !.sent[user_id][type] = @ + 1]

mark_alive_send_message(C, r) ==
    Goto(send_message(C, C.reqs[r].user_id, "join"), r, "zadd")

\* g.redis.zadd("chats_alive", time.time()+15, "%s/%s" % (g.chat_id, g.user_id))
\* return f(*args, **kwargs)
mark_alive_zadd(C, r) ==
    Finish([C EXCEPT !.alive = @ \cup {alive_member(C.reqs[r].user_id)}], r)

\* redis.zrem("chats_alive", "%s/%s" % (chat_id, user_id))
disconnect_zrem(C, r) ==
    Goto([C EXCEPT !.alive = @ \ {alive_member(C.reqs[r].user_id)}], r, "srem")

disconnect_result_always(reply) == TRUE

\* return (redis.srem("chat:%s:online" % chat_id, user_id) == 1)
disconnect_result(reply) == reply = 1

\* if disconnect(g.redis, g.chat_id, g.user_id): ... else: return "", 204
disconnect_srem(C, r) ==
    LET out == srem(C.online, str(C.reqs[r].user_id))
        C2 == [C EXCEPT !.online = out.set]
    IN  IF disconnect_result(out.reply) THEN Goto(C2, r, "send_message") ELSE Finish(C2, r)

\* send_message(... type="disconnect" ...); return "", 204
quit_send_message(C, r) ==
    Finish(send_message(C, C.reqs[r].user_id, "disconnect"), r)

\* The next step of request r.
RequestStep(C, r) ==
    LET q == C.reqs[r]
    IN  IF q.kind = "mark_alive"
        THEN CASE q.pc = "sismember"    -> mark_alive_sismember(C, r)
               [] q.pc = "sadd"         -> mark_alive_sadd(C, r)
               [] q.pc = "send_message" -> mark_alive_send_message(C, r)
               [] q.pc = "zadd"         -> mark_alive_zadd(C, r)
        ELSE CASE q.pc = "zrem"         -> disconnect_zrem(C, r)
               [] q.pc = "srem"         -> disconnect_srem(C, r)
               [] q.pc = "send_message" -> quit_send_message(C, r)

\* Request r run to its end with no other request between its steps.
RECURSIVE RequestRun(_, _)
RequestRun(C, r) == IF r \notin DOMAIN C.reqs THEN C ELSE RequestRun(RequestStep(C, r), r)

Arrive(C, kind, user_id, pc) ==
    [C EXCEPT !.started = @ + 1,
              !.reqs = Put(@, C.started + 1, NewRequest(kind, user_id, pc))]

ChatStore == [online |-> chat.online, alive |-> chat.alive]

\* A request arrives and takes its first step.
request_arrives(kind, user_id, pc) ==
    /\ chat.started < MaxRequests
    /\ chat' = RequestStep(Arrive(chat, kind, user_id, pc), chat.started + 1)
    /\ ret' = [op |-> pc, user_id |-> user_id, pre |-> ChatStore]
    /\ UNCHANGED <<presenceVars, tokenVars, race, signals>>

\* A request in flight takes its next step.
request_continues(r, kind, pc) ==
    /\ r \in DOMAIN chat.reqs
    /\ chat.reqs[r].kind = kind
    /\ chat.reqs[r].pc = pc
    /\ chat' = RequestStep(chat, r)
    /\ ret' = [op |-> IF kind = "quit" /\ pc = "srem" THEN "disconnect" ELSE pc,
               user_id |-> chat.reqs[r].user_id,
               result |-> Return(r \in DOMAIN chat'.reqs),   \* it goes on
               pre |-> ChatStore]
    /\ UNCHANGED <<presenceVars, tokenVars, race, signals>>

\* A request served from arrival to response while no other is in flight.
request_alone(kind, user_id, pc) ==
    /\ chat.started < MaxRequests
    /\ DOMAIN chat.reqs = {}
    /\ chat' = RequestRun(Arrive(chat, kind, user_id, pc), chat.started + 1)
    /\ ret' = [op |-> kind, user_id |-> user_id, pre |-> ChatStore]
    /\ UNCHANGED <<presenceVars, tokenVars, race, signals>>

Requests == 1..MaxRequests

\* mark_alive requests in flight together; quit requests come between them.
NextMarkAlive ==
    \/ \E u \in Users : request_arrives("mark_alive", u, "sismember")
    \/ \E r \in Requests : request_continues(r, "mark_alive", "sadd")
    \/ \E r \in Requests : request_continues(r, "mark_alive", "send_message")
    \/ \E r \in Requests : request_continues(r, "mark_alive", "zadd")
    \/ \E u \in Users : request_alone("quit", u, "zrem")

SpecMarkAlive == Init /\ [][NextMarkAlive]_vars

\* quit requests in flight together; mark_alive requests come between them.
NextQuit ==
    \/ \E u \in Users : request_alone("mark_alive", u, "sismember")
    \/ \E u \in Users : request_arrives("quit", u, "zrem")
    \/ \E r \in Requests : request_continues(r, "quit", "srem")
    \/ \E r \in Requests : request_continues(r, "quit", "send_message")

SpecQuit == Init /\ [][NextQuit]_vars

----------------------------------------------------------------------------
(* Claims about UserListStore *)

\* The handles of the online map O that map to user u.
HandlesOf(O, u) == {h \in DOMAIN O : int(O[h]) = u}

\* C4: socket_join returns true exactly when no handle of the online map
\* mapped to user_id immediately before the call.
C4_JoinTrueIffWasOffline ==
    ret.op = "socket_join"
        => ret.result = Return(HandlesOf(ret.pre.online, ret.user_id) = {})

C4_Witness ==
    /\ ret.op = "socket_join"
    /\ ret.result = Return(TRUE)
    /\ \E h \in DOMAIN ret.pre.online : h # ret.socket_id
    /\ HandlesOf(online, ret.user_id) = {ret.socket_id}

\* C5: socket_disconnect returns true exactly when the handle was in the
\* online map and no remaining handle maps to its owner; afterwards the
\* handle has neither an online-map entry nor a liveness record.
C5_SocketDisconnectResult ==
    ret.op = "socket_disconnect" =>
        LET O == ret.pre.online
            h == ret.socket_id
        IN  /\ ret.result =
                  Return(h \in DOMAIN O /\ HandlesOf(O, int(O[h])) \ {h} = {})
            /\ h \notin DOMAIN online
            /\ h \notin DOMAIN live

C5_Witness ==
    /\ ret.op = "socket_disconnect"
    /\ ret.result = Return(FALSE)
    /\ ret.socket_id \in DOMAIN ret.pre.online
    /\ ret.socket_id \in DOMAIN ret.pre.live
    /\ HandlesOf(online, int(ret.pre.online[ret.socket_id])) # {}

\* C6: user_disconnect returns true iff a handle of user_id was in the online
\* map; afterwards no handle maps to user_id, the liveness record of every
\* removed handle is gone, and the handles of other users and their liveness
\* records are as before.
C6_UserDisconnectResult ==
    ret.op = "user_disconnect" =>
        LET O == ret.pre.online
            L == ret.pre.live
            mine == HandlesOf(O, ret.user_id)
        IN  /\ ret.result = Return(mine # {})
            /\ HandlesOf(online, ret.user_id) = {}
            /\ \A h \in mine : h \notin DOMAIN live
            /\ DOMAIN online = DOMAIN O \ mine
            /\ \A h \in DOMAIN O \ mine :
                   /\ online[h] = O[h]
                   /\ h \in DOMAIN live <=> h \in DOMAIN L
                   /\ h \in DOMAIN L => live[h] = L[h]

C6_Witness ==
    /\ ret.op = "user_disconnect"
    /\ ret.result = Return(TRUE)
    /\ DOMAIN ret.pre.live = Handles
    /\ Cardinality(HandlesOf(ret.pre.online, ret.user_id)) = 1
    /\ DOMAIN live # {}

\* C8: socket_ping raises PingTimeoutException iff the handle has no
\* online-map entry or no liveness record; when it raises the store is
\* unchanged; when it succeeds only the handle's liveness TTL changes, to 30.
C8_PingTimeoutIffStale ==
    ret.op = "socket_ping" =>
        LET h == ret.socket_id
            fresh == h \in DOMAIN ret.pre.online /\ h \in DOMAIN ret.pre.live
        IN  /\ ret.result = Raise("PingTimeoutException") <=> ~fresh
            /\ ~fresh => Presence = ret.pre
            /\ fresh => /\ ret.result = Return("None")
                        /\ online = ret.pre.online
                        /\ typing = ret.pre.typing
                        /\ usermeta = ret.pre.usermeta
                        /\ live = [ret.pre.live EXCEPT ![h].ttl = 30]

\* a ping of a handle whose liveness record expired while its online-map
\* entry stayed
C8_Witness ==
    /\ ret.op = "socket_ping"
    /\ ret.result = Raise("PingTimeoutException")
    /\ ret.socket_id \in DOMAIN online
    /\ ret.socket_id \notin DOMAIN live

\* C9: inconsistent_entries returns exactly the (handle, user_id) pairs whose
\* handle is in the online map and has no liveness record, and changes
\* nothing.
C9_InconsistentEntriesExact ==
    ret.op = "inconsistent_entries" =>
        /\ ret.result = Return({p \in Handles \X Users :
                                  /\ p[1] \in HandlesOf(online, p[2])
                                  /\ p[1] \notin DOMAIN live})
        /\ Presence = ret.pre

C9_Witness ==
    /\ ret.op = "inconsistent_entries"
    /\ ret.result.value # {}
    /\ DOMAIN live # {}

\* The user numbers in the typing set T.
Typing(T) == {n \in UserNumbers : str(n) \in T}

\* C10: user_start_typing(n) returns true iff n was not typing, and n is
\* typing afterwards (so an immediate repeat returns false);
\* user_stop_typing(n) returns true iff n was typing, and n is not typing
\* afterwards; a call that returns false leaves the set unchanged; and
\* user_numbers_typing returns exactly the members.
C10_TypingToggles ==
    /\ ret.op = "user_start_typing" =>
           /\ ret.result = Return(ret.user_number \notin Typing(ret.pre.typing))
           /\ Typing(typing) = Typing(ret.pre.typing) \cup {ret.user_number}
           /\ ret.result = Return(FALSE) => typing = ret.pre.typing
    /\ ret.op = "user_stop_typing" =>
           /\ ret.result = Return(ret.user_number \in Typing(ret.pre.typing))
           /\ Typing(typing) = Typing(ret.pre.typing) \ {ret.user_number}
           /\ ret.result = Return(FALSE) => typing = ret.pre.typing
    /\ ret.op = "user_numbers_typing" =>
           /\ ret.result = Return(Typing(typing))
           /\ Cardinality(ret.result.value) = Cardinality(typing)

C10_Witness ==
    /\ ret.op = "user_stop_typing"
    /\ ret.result = Return(TRUE)
    /\ ret.pre.typing # {}
    /\ str(ret.user_number) \notin typing

\* C15: after user_disconnect(user_id, user_number) and after
\* socket_disconnect(socket_id, user_number), user_number is not in the typing
\* set, whatever the online map held.
C15_DisconnectClearsTyping ==
    ret.op \in {"user_disconnect", "socket_disconnect"}
        => ret.user_number \notin Typing(typing)

\* The handles of the store P that are in the online map without a liveness
\* record.
Stale(P) == DOMAIN P.online \ DOMAIN P.live

C17_SignalsAlternate ==
    /\ \A u \in Users : ~signals[u].twice
    /\ \A u \in Users : signals[u].last = "joined" <=> HandlesOf(online, u) # {}

\* the last handle of a user, stale by then, is disconnected while the other
\* user is online: the user's "left", after which it is offline
C17_Witness ==
    /\ ret.op = "socket_disconnect"
    /\ ret.result = Return(TRUE)
    /\ ret.socket_id \in Stale(ret.pre)
    /\ Cardinality(DOMAIN ret.pre.online) >= 3
    /\ \E u \in Users : signals[u].last = "joined"
    /\ signals[int(ret.pre.online[ret.socket_id])].last = "left"

\* The handles whose socket_join has put them into the online map and has
\* not yet set their liveness record.
HalfJoined == {h \in DOMAIN Jobs : Jobs[h].sent = 3}

\* C18: socket_join takes effect in one indivisible step among the steps of
\* socket_ping, socket_disconnect, user_disconnect and inconsistent_entries:
\* no pipeline is ever partly applied, no socket_ping times out on a handle
\* that a join has put into the online map without its liveness record yet,
\* and inconsistent_entries never lists such a handle.
C18_JoinIsOneStep ==
    /\ \A h \in DOMAIN Jobs : Jobs[h].sent = 0
    /\ (ret.op = "socket_ping" /\ ret.result = Raise("PingTimeoutException"))
           => ret.socket_id \notin HalfJoined
    /\ ret.op = "inconsistent_entries"
           => \A p \in ret.result.value : p[1] \notin HalfJoined
    /\ ret.op = "socket_join"
           => /\ ret.socket_id \in DOMAIN online /\ ret.socket_id \in DOMAIN live
              /\ online[ret.socket_id] = str(ret.user_id)
              /\ live[ret.socket_id] = [value |-> ret.session_id, ttl |-> socket_ttl]

\* inconsistent_entries reports a handle, stale by expiry, for which a
\* caller has a new socket_join queued
C18_Witness ==
    /\ ret.op = "inconsistent_entries"
    /\ ret.result.value # {}
    /\ DOMAIN Jobs # {}
    /\ \E h \in DOMAIN Jobs : h \in Stale(Presence)

\* C21: in every reachable state a handle has a liveness record only if the
\* online map contains the handle.  (The converse may fail: expiry leaves
\* online-map entries without a liveness record.)
C21_LivenessOnlyIfOnline == DOMAIN live \subseteq DOMAIN online

\* a disconnect has just removed a handle together with its liveness record
\* while another handle is in the online map without one
C21_Witness ==
    /\ ret.op \in {"socket_disconnect", "user_disconnect"}
    /\ DOMAIN ret.pre.live \ DOMAIN live # {}
    /\ Stale(Presence) # {}

----------------------------------------------------------------------------
(* Claims about charat2's mark_alive and disconnect *)

\* The requests of user u that are about to call send_message, and 1 or 0
\* for u being in the chat's online set.
Publishing(u) == {r \in DOMAIN chat.reqs :
                    chat.reqs[r].user_id = u /\ chat.reqs[r].pc = "send_message"}

Member(u) == IF str(u) \in chat.online THEN 1 ELSE 0

\* C19: mark_alive's check and addition act as one race-safe step: of the
\* mark_alive requests that meet a user outside the online set exactly one
\* publishes "join", and a request for a user in the set publishes none.
\* So the joins published or about to be are one more than the disconnects
\* while the user is in the set, and as many while it is not.
C19_OneJoinPerEntry ==
    \A u \in Users :
        chat.sent[u].join + Cardinality(Publishing(u))
            = chat.sent[u].disconnect + Member(u)

----------------------------------------------------------------------------
(* Claims about ConnectionTokenStore *)

ForwardRecordsOf(u, c) ==
    {k \in DOMAIN fwd : fwd[k].user_id = str(u) /\ fwd[k].chat_id = str(c)}

\* C1: every (user_id, chat_id) pair has at most one live forward token
\* record, and redeeming a token that a later create for the same pair has
\* superseded raises InvalidToken.
C1_AtMostOneForwardRecord ==
    /\ \A u \in Users, c \in Chats : Cardinality(ForwardRecordsOf(u, c)) <= 1
    /\ (ret.op = "use" /\ ret.was.state = "superseded")
           => ret.result = Raise("InvalidToken")

\* C2: use_connection_token of a token that is still live (created, not
\* expired, redeemed, invalidated or superseded) returns exactly the
\* (user_id, chat_id, session_id) it was created for.
C2_RedeemReturnsIdentity ==
    (ret.op = "use" /\ ret.was.state = "live")
        => ret.result = Return(<<ret.was.user_id, ret.was.chat_id, ret.was.session_id>>)

\* C3: redemption is exactly-once: per token at most one call returns, a
\* token submitted while live has been returned by exactly one call, and a
\* call on a token already redeemed raises InvalidToken.
C3_RedeemedExactlyOnce ==
    \A t \in DOMAIN tok :
        /\ okcalls[t] <= 1
        /\ tok[t].state = "redeemed" => okcalls[t] = 1
        /\ (ret.op = "use" /\ ret.token = t /\ ret.was.state = "redeemed")
               => ret.result = Raise("InvalidToken")

\* The reverse key of (u, c), and the forward and reverse records of the
\* store S that belong to other pairs than (u, c).
ReverseKey(u, c) == <<str(u), str(c)>>

OtherForward(S, u, c) ==
    [k \in {x \in DOMAIN S.fwd : ~(S.fwd[x].user_id = str(u) /\ S.fwd[x].chat_id = str(c))}
        |-> S.fwd[k]]

OtherReverse(S, u, c) == [k \in DOMAIN S.rev \ {ReverseKey(u, c)} |-> S.rev[k]]

\* C11: after invalidate_connection_token(user_id, chat_id) the pair has
\* neither a forward nor a reverse record; with no token outstanding for the
\* pair the call changes nothing; the records of other pairs are unchanged.
C11_InvalidateRemovesBoth ==
    ret.op = "invalidate" =>
        LET u == ret.user_id
            c == ret.chat_id
        IN  /\ ForwardRecordsOf(u, c) = {}
            /\ ReverseKey(u, c) \notin DOMAIN rev
            /\ ReverseKey(u, c) \notin DOMAIN ret.pre.rev => TokenStore = ret.pre
            /\ OtherForward(TokenStore, u, c) = OtherForward(ret.pre, u, c)
            /\ OtherReverse(TokenStore, u, c) = OtherReverse(ret.pre, u, c)

\* C12: invalidate_all_tokens_for_user(user_id) returns normally, afterwards
\* no chat has a forward or a reverse record of the user, and the records of
\* other users are unchanged.
C12_InvalidateAllSweeps ==
    ret.op = "invalidate_all" =>
        LET u == ret.user_id
        IN  /\ Returned(ret.result)
            /\ \A k \in DOMAIN fwd : fwd[k].user_id # str(u)
            /\ \A k \in DOMAIN rev : k[1] # str(u)
            /\ \A k \in DOMAIN ret.pre.fwd :
                   ret.pre.fwd[k].user_id # str(u)
                       => k \in DOMAIN fwd /\ fwd[k] = ret.pre.fwd[k]
            /\ \A k \in DOMAIN ret.pre.rev :
                   k[1] # str(u) => k \in DOMAIN rev /\ rev[k] = ret.pre.rev[k]

\* C13: for a token that is malformed, unknown (never issued), expired or
\* already redeemed, use_connection_token raises InvalidToken and leaves
\* every token record unchanged.
C13_DeadTokenRaisesInvalidToken ==
    (ret.op = "use" /\ ret.was.state \in {"unknown", "expired", "redeemed"})
        => /\ ret.result = Raise("InvalidToken")
           /\ TokenStore = ret.pre

\* C14: forward and reverse records are in lockstep: the forward record of
\* token t carrying (user_id, chat_id) exists iff the reverse record of
\* (user_id, chat_id) exists and holds t.
C14_ForwardReverseLockstep ==
    /\ \A t \in DOMAIN fwd :
           LET k == <<fwd[t].user_id, fwd[t].chat_id>>
           IN  k \in DOMAIN rev /\ rev[k].value = t
    /\ \A k \in DOMAIN rev :
           LET t == rev[k].value
           IN  /\ t \in DOMAIN fwd
               /\ <<fwd[t].user_id, fwd[t].chat_id>> = k

\* C7: of N concurrent socket_join calls with N distinct handles of a user
\* who had no handle in the online map, exactly one returns true, and every
\* handle whose call has returned is in the online map with a liveness
\* record (all N of them once all calls have returned).
C7_ExactlyOneJoinWins ==
    race.phase = "racing" =>
        LET done == DOMAIN race.results
        IN  /\ done = RaceHandles \ race.pending
            /\ done # {} => Cardinality({h \in done : race.results[h]}) = 1
            /\ \A h \in done : /\ h \in HandlesOf(online, race.user_id)
                                /\ h \in DOMAIN live

C7_Witness ==
    /\ race.phase = "racing"
    /\ race.pending = {}
    /\ Cardinality(DOMAIN race.results) >= 2
    /\ \E h \in DOMAIN online : int(online[h]) # race.user_id

====
